---------------------------- MODULE Spec2Model ----------------------------
(***************************************************************************)
(* wm8960.h: the register map of the WM8960 Left Input Volume register     *)
(* (R0).  The header is constant data; the constants are transcribed       *)
(* below with the source's names and expressions (hexadecimal literals are *)
(* written \H.., shifts are computed by Shl).  Around them stands the      *)
(* smallest context the map is written for: a driver that builds the 9-bit *)
(* register value out of the constants and the chip's R0 register as the   *)
(* header's own comment documents it (bit 8 latch, bit 7 mute, bit 6       *)
(* zero-cross, bits 5:0 gain code).                                        *)
(***************************************************************************)
EXTENDS Integers, FiniteSets

(***************************************************************************)
(* C's operators on unsigned int.  Every operand of the model stays below  *)
(* 2^31, so no shift or OR wraps around the 32-bit width.                  *)
(***************************************************************************)
RECURSIVE Pow2(_)
Pow2(n) == IF n = 0 THEN 1 ELSE 2 * Pow2(n - 1)

\* a << n
Shl(a, n) == a * Pow2(n)

\* a >> n
Shr(a, n) == a \div Pow2(n)

RECURSIVE BitAnd(_, _)
\* a & b
BitAnd(a, b) ==
    IF a = 0 \/ b = 0 THEN 0
    ELSE (a % 2) * (b % 2) + 2 * BitAnd(a \div 2, b \div 2)

RECURSIVE BitOr(_, _)
\* a | b
BitOr(a, b) ==
    IF a = 0 THEN b
    ELSE IF b = 0 THEN a
    ELSE (IF a % 2 = 1 \/ b % 2 = 1 THEN 1 ELSE 0) + 2 * BitOr(a \div 2, b \div 2)

RECURSIVE BitAndNot(_, _)
\* a & ~m  (the bits of a outside m; exact for any width of ~)
BitAndNot(a, m) ==
    IF a = 0 THEN 0
    ELSE (a % 2) * (1 - (m % 2)) + 2 * BitAndNot(a \div 2, m \div 2)

\* bit n of a, as a boolean
BitSet(a, n) == (a \div Pow2(n)) % 2 = 1

(***************************************************************************)
(* Mutants of the constants (plausible slips in the header).               *)
(***************************************************************************)
Mut_IPVU_Bit7 == Shl(1, 7)

Mut_IPVU_Bit9 == Shl(1, 9)

Mut_LINMUTE_Bit6 == Shl(1, 6)

Mut_LIZC_Bit5 == Shl(1, 5)

Mut_LINVOL_MASK_5Bits == \H1F

Mut_LINVOL_SHIFT_1 == 0 + 1

Mut_LINVOL_0DB_Off == \H18

\* decimal 17 written for hexadecimal 0x17
Mut_LINVOL_0DB_Decimal == 17 + 0

Mut_LINVOL_MAX_Off == \H3E

Mut_LR_INVOL_0dB_Off == \H007

(***************************************************************************)
(* The first group: WM8960_R0_*  (wm8960.h lines 15-22).                   *)
(***************************************************************************)
WM8960_R0_ADDR == \H00

WM8960_R0_IPVU == Shl(1, 8)

WM8960_R0_LINMUTE == Shl(1, 7)

WM8960_R0_LIZC == Shl(1, 6)

WM8960_R0_LINVOL_MASK == \H3F

WM8960_R0_LINVOL_SHIFT == 0

WM8960_R0_LINVOL_0DB == \H17

WM8960_R0_LINVOL_MAX_30DB == \H3F

(***************************************************************************)
(* The second group: WM8960_LEFT_RIGHT_IN_VOL_*  (wm8960.h lines 34-38).   *)
(***************************************************************************)
WM8960_LEFT_RIGHT_IN_VOL_IPVU == \H100

WM8960_LEFT_RIGHT_IN_VOL_INMUTE == \H080

WM8960_LEFT_RIGHT_IN_VOL_IZC_ZC == \H040

WM8960_LEFT_RIGHT_IN_VOL_INVOL_0dB == \H017

WM8960_LEFT_RIGHT_IN_VOL_INVOL_30dB == \H03F

(***************************************************************************)
(* The register map as the header's doc comment states it (lines 5-13).    *)
(***************************************************************************)
\* "@name WM8660_R0_LEFT_IN_VOL (0x00)"
DOC_R0_ADDR == \H00

\* "Default 0x017 = 0 dB, unmuted"
DOC_R0_DEFAULT == \H017

\* "BIT 8  IPVU (volume update)"
DOC_IPVU_BIT == 8

\* "BIT 7  LINMUTE (L input mute)"
DOC_LINMUTE_BIT == 7

\* "BIT 6  LIZC (zero-cross)"
DOC_LIZC_BIT == 6

\* "BIT [5:0]  LINVOL"
DOC_LINVOL_HI == 5

DOC_LINVOL_LO == 0

\* "DEF. 010111": 0*32 + 1*16 + 0*8 + 1*4 + 1*2 + 1
DOC_LINVOL_DEFAULT == 0 * 32 + 1 * 16 + 0 * 8 + 1 * 4 + 1 * 2 + 1

\* "0.75dB steps", in quarter-dB units
DOC_STEP_QDB == 3

\* "Min 30db" (the maximum, +30 dB), in quarter-dB units
DOC_MAX_QDB == 30 * 4

\* "Min -17.25dB", in quarter-dB units: -(17*4 + 1)
DOC_MIN_QDB == 0 - (17 * 4 + 1)

\* the value of bits hi..lo of r
DocField(r, hi, lo) == (r \div Pow2(lo)) % Pow2(hi - lo + 1)

\* the gain code the chip reads from a written value: bits 5:0
DocLINVOL(r) == DocField(r, DOC_LINVOL_HI, DOC_LINVOL_LO)

\* the gain of a LINVOL code in quarter-dB units: 0.75 dB per step, anchored
\* at the 0 dB code
GainQdB(code) == (code - WM8960_R0_LINVOL_0DB) * DOC_STEP_QDB

(***************************************************************************)
(* Bounds.                                                                 *)
(***************************************************************************)
\* gain inputs a driver may pass run past the field's largest code by this much
ExtraCodes == 3

(***************************************************************************)
(* The consuming driver: composing and decoding a register value.          *)
(***************************************************************************)
FlagNames == {"IPVU", "LINMUTE", "LIZC"}

LevelNames == {"0dB", "30dB"}

GainInputs == 0 .. (\H3F + ExtraCodes)

R0Flag(f) ==
    CASE f = "IPVU" -> WM8960_R0_IPVU
      [] f = "LINMUTE" -> WM8960_R0_LINMUTE
      [] f = "LIZC" -> WM8960_R0_LIZC

LRFlag(f) ==
    CASE f = "IPVU" -> WM8960_LEFT_RIGHT_IN_VOL_IPVU
      [] f = "LINMUTE" -> WM8960_LEFT_RIGHT_IN_VOL_INMUTE
      [] f = "LIZC" -> WM8960_LEFT_RIGHT_IN_VOL_IZC_ZC

R0Level(l) ==
    CASE l = "0dB" -> WM8960_R0_LINVOL_0DB
      [] l = "30dB" -> WM8960_R0_LINVOL_MAX_30DB

LRLevel(l) ==
    CASE l = "0dB" -> WM8960_LEFT_RIGHT_IN_VOL_INVOL_0dB
      [] l = "30dB" -> WM8960_LEFT_RIGHT_IN_VOL_INVOL_30dB

\* the OR of the selected flag masks of the first group
R0FlagBits(S) ==
    BitOr(IF "IPVU" \in S THEN R0Flag("IPVU") ELSE 0,
          BitOr(IF "LINMUTE" \in S THEN R0Flag("LINMUTE") ELSE 0,
                IF "LIZC" \in S THEN R0Flag("LIZC") ELSE 0))

\* the OR of the selected flag masks of the second group
LRFlagBits(S) ==
    BitOr(IF "IPVU" \in S THEN LRFlag("IPVU") ELSE 0,
          BitOr(IF "LINMUTE" \in S THEN LRFlag("LINMUTE") ELSE 0,
                IF "LIZC" \in S THEN LRFlag("LIZC") ELSE 0))

\* ((g << SHIFT) & MASK) | flags
ComposeR0(g, S) ==
    BitOr(BitAnd(Shl(g, WM8960_R0_LINVOL_SHIFT), WM8960_R0_LINVOL_MASK),
          R0FlagBits(S))

\* (r & MASK) >> SHIFT
ExtractLINVOL(r) ==
    Shr(BitAnd(r, WM8960_R0_LINVOL_MASK), WM8960_R0_LINVOL_SHIFT)

\* the flags whose mask r has a bit of
ExtractFlags(r) == {f \in FlagNames : BitAnd(r, R0Flag(f)) # 0}

\* a reference level written with the first group: (level << SHIFT) | flags
ComposeR0Level(l, S) ==
    BitOr(Shl(R0Level(l), WM8960_R0_LINVOL_SHIFT), R0FlagBits(S))

\* the same written with the second group: level | flags
ComposeLR(l, S) == BitOr(LRLevel(l), LRFlagBits(S))

(***************************************************************************)
(* State.                                                                  *)
(***************************************************************************)
VARIABLES
    last,       \* what wrote R0 last: "reset", "code", "level" or "levelLR"
    gain,       \* the gain code the driver was asked to write
    level,      \* the reference level the driver was asked to write, or "none"
    flags,      \* the flags the driver was asked to set
    reg,        \* the 9-bit value last supplied to the bus write of R0
    pending,    \* the chip: the gain code written last
    effective   \* the chip: the gain code in effect

vars == <<last, gain, level, flags, reg, pending, effective>>

\* the chip takes a written value: bits 5:0 are held, and take effect when
\* bit 8 (IPVU) is set
ChipWrite(v) ==
    /\ pending' = DocLINVOL(v)
    /\ effective' = IF BitSet(v, DOC_IPVU_BIT) THEN DocLINVOL(v) ELSE effective

\* power-up: the register holds its documented default
Init ==
    /\ last = "reset"
    /\ gain = DOC_LINVOL_DEFAULT
    /\ level = "none"
    /\ flags = {}
    /\ reg = DOC_R0_DEFAULT
    /\ pending = DOC_LINVOL_DEFAULT
    /\ effective = DOC_LINVOL_DEFAULT

\* the driver writes the gain code g, with the flags as they were asked last
WriteGain(g) ==
    /\ last' = "code"
    /\ gain' = g
    /\ level' = "none"
    /\ flags' = flags
    /\ reg' = ComposeR0(g, flags)
    /\ ChipWrite(ComposeR0(g, flags))

\* the driver writes the flags S, with the gain code as it was asked last
WriteFlags(S) ==
    /\ last' = "code"
    /\ gain' = gain
    /\ level' = "none"
    /\ flags' = S
    /\ reg' = ComposeR0(gain, S)
    /\ ChipWrite(ComposeR0(gain, S))

\* the driver writes a reference level, built from the first group
WriteLevel(l) ==
    /\ last' = "level"
    /\ gain' = R0Level(l)
    /\ level' = l
    /\ flags' = flags
    /\ reg' = ComposeR0Level(l, flags)
    /\ ChipWrite(ComposeR0Level(l, flags))

\* the driver writes a reference level, built from the second group
WriteLevelLR(l) ==
    /\ last' = "levelLR"
    /\ gain' = LRLevel(l)
    /\ level' = l
    /\ flags' = flags
    /\ reg' = ComposeLR(l, flags)
    /\ ChipWrite(ComposeLR(l, flags))

\* the chip is powered up again
PowerUp ==
    /\ last # "reset"
    /\ last' = "reset"
    /\ gain' = DOC_LINVOL_DEFAULT
    /\ level' = "none"
    /\ flags' = {}
    /\ reg' = DOC_R0_DEFAULT
    /\ pending' = DOC_LINVOL_DEFAULT
    /\ effective' = DOC_LINVOL_DEFAULT

Next ==
    \/ \E g \in GainInputs : WriteGain(g)
    \/ \E S \in SUBSET FlagNames : WriteFlags(S)
    \/ \E l \in LevelNames : WriteLevel(l)
    \/ \E l \in LevelNames : WriteLevelLR(l)
    \/ PowerUp

Spec == Init /\ [][Next]_vars

TypeOK ==
    /\ last \in {"reset", "code", "level", "levelLR"}
    /\ gain \in GainInputs
    /\ level \in LevelNames \cup {"none"}
    /\ flags \in SUBSET FlagNames
    /\ reg \in 0 .. 511
    /\ pending \in 0 .. 63
    /\ effective \in 0 .. 63

(***************************************************************************)
(* The fields of R0, by name.                                              *)
(***************************************************************************)
R0FieldNames == FlagNames \cup {"LINVOL"}

R0Mask(f) == IF f = "LINVOL" THEN WM8960_R0_LINVOL_MASK ELSE R0Flag(f)

\* IPVU | LINMUTE | LIZC
R0AllFlags == BitOr(WM8960_R0_IPVU, BitOr(WM8960_R0_LINMUTE, WM8960_R0_LIZC))

\* the largest value the LINVOL field holds: MASK >> SHIFT
R0MaxCode == Shr(WM8960_R0_LINVOL_MASK, WM8960_R0_LINVOL_SHIFT)

(***************************************************************************)
(* C1.  Each of the four field masks of R0 (IPVU, LINMUTE, LIZC,           *)
(* LINVOL_MASK) is non-zero, and the bitwise AND of the masks of any two   *)
(* distinct fields is 0: no bit of a written value belongs to two fields.  *)
(***************************************************************************)
C1_MasksDisjoint ==
    /\ \A f \in R0FieldNames : R0Mask(f) # 0
    /\ \A f1, f2 \in R0FieldNames :
           f1 # f2 =>
               /\ BitAnd(R0Mask(f1), R0Mask(f2)) = 0
               /\ BitAnd(BitAnd(reg, R0Mask(f1)), R0Mask(f2)) = 0

\* a register value that uses all four fields at once
C1_Witness ==
    /\ last = "code"
    /\ flags = FlagNames
    /\ gain = WM8960_R0_LINVOL_MASK
    /\ \A f \in R0FieldNames : BitAnd(reg, R0Mask(f)) = R0Mask(f)

(***************************************************************************)
(* C2.  Both reference codes fit the field: (v << SHIFT) & ~MASK = 0 for   *)
(* v the 0 dB code and v the +30 dB code; the 0 dB code is strictly below  *)
(* the maximum code; the maximum code is MASK >> SHIFT, the largest value  *)
(* the field holds.  So a written reference level reads back unchanged.    *)
(***************************************************************************)
C2_ReferenceValuesFit ==
    /\ \A l \in LevelNames :
           BitAndNot(Shl(R0Level(l), WM8960_R0_LINVOL_SHIFT),
                     WM8960_R0_LINVOL_MASK) = 0
    /\ WM8960_R0_LINVOL_0DB < WM8960_R0_LINVOL_MAX_30DB
    /\ WM8960_R0_LINVOL_MAX_30DB = R0MaxCode
    /\ last = "level" => ExtractLINVOL(reg) = R0Level(level)

\* the maximum level was written and read back
C2_Witness ==
    /\ last = "level"
    /\ level = "30dB"
    /\ ExtractLINVOL(reg) = WM8960_R0_LINVOL_MAX_30DB

(***************************************************************************)
(* C3.  The constants are the documented register map: the address is      *)
(* 0x00; IPVU is exactly bit 8, LINMUTE exactly bit 7, LIZC exactly bit 6; *)
(* LINVOL_MASK is exactly bits 5..0 and the shift is 0; the 0 dB code is   *)
(* 0x17 and the +30 dB code is 0x3F.  So the chip, decoding by the         *)
(* documented bit positions, reads what the driver composed.               *)
(***************************************************************************)
C3_MatchesRegisterMap ==
    /\ WM8960_R0_ADDR = DOC_R0_ADDR
    /\ WM8960_R0_ADDR = 0
    /\ WM8960_R0_IPVU = Pow2(DOC_IPVU_BIT)
    /\ WM8960_R0_LINMUTE = Pow2(DOC_LINMUTE_BIT)
    /\ WM8960_R0_LIZC = Pow2(DOC_LIZC_BIT)
    /\ WM8960_R0_LINVOL_MASK = Pow2(DOC_LINVOL_HI + 1) - Pow2(DOC_LINVOL_LO)
    /\ WM8960_R0_LINVOL_SHIFT = DOC_LINVOL_LO
    /\ WM8960_R0_LINVOL_SHIFT = 0
    /\ WM8960_R0_LINVOL_0DB = 23
    /\ WM8960_R0_LINVOL_0DB = DOC_LINVOL_DEFAULT
    /\ WM8960_R0_LINVOL_MAX_30DB = 63
    /\ (last = "code" /\ gain <= 63) =>
           /\ DocLINVOL(reg) = gain
           /\ BitSet(reg, DOC_IPVU_BIT) <=> "IPVU" \in flags
           /\ BitSet(reg, DOC_LINMUTE_BIT) <=> "LINMUTE" \in flags
           /\ BitSet(reg, DOC_LIZC_BIT) <=> "LIZC" \in flags

\* mute alone was written with a mid-range code: the value is 0x080 | 0x2A
C3_Witness ==
    /\ last = "code"
    /\ gain = 42
    /\ flags = {"LINMUTE"}
    /\ reg = 128 + 42

(***************************************************************************)
(* C4.  From the 0 dB code to the maximum code there are 40 steps, and 40  *)
(* steps of 0.75 dB are exactly 30 dB (quarter-dB units: 40 * 3 = 120 =    *)
(* 30 * 4).  So the maximum level written is +30 dB, the 0 dB level 0 dB.  *)
(***************************************************************************)
C4_ThirtyDbRange ==
    /\ WM8960_R0_LINVOL_MAX_30DB - WM8960_R0_LINVOL_0DB = 40
    /\ (WM8960_R0_LINVOL_MAX_30DB - WM8960_R0_LINVOL_0DB) * DOC_STEP_QDB
           = DOC_MAX_QDB
    /\ DOC_MAX_QDB = 120
    /\ (last = "level" /\ level = "30dB") =>
           GainQdB(ExtractLINVOL(reg)) = DOC_MAX_QDB
    /\ (last = "level" /\ level = "0dB") => GainQdB(ExtractLINVOL(reg)) = 0

\* the maximum level was written and latched: +30 dB is in effect
C4_Witness ==
    /\ last = "level"
    /\ level = "30dB"
    /\ "IPVU" \in flags
    /\ GainQdB(effective) = 120

C7_MinimumGain ==
    /\ WM8960_R0_LINVOL_0DB * DOC_STEP_QDB = 69
    /\ GainQdB(0) = DOC_MIN_QDB
    /\ GainQdB(R0MaxCode) = DOC_MAX_QDB
    /\ Cardinality(0 .. R0MaxCode) = 64
    /\ GainQdB(pending) \in DOC_MIN_QDB .. DOC_MAX_QDB
    /\ (last = "code" /\ gain = 0) => GainQdB(ExtractLINVOL(reg)) = DOC_MIN_QDB

\* the lowest code was written and latched: -17.25 dB is in effect
C7_Witness ==
    /\ last = "code"
    /\ gain = 0
    /\ "IPVU" \in flags
    /\ GainQdB(effective) = 0 - 69

(***************************************************************************)
(* C8.  The two groups of constants are the same encoding: the flag masks  *)
(* are equal one by one, and each reference level of the second group is   *)
(* the first group's code shifted by the shift; so a reference level       *)
(* written with either group gives the same register value.                *)
(***************************************************************************)
C8_GroupsAgree ==
    /\ WM8960_LEFT_RIGHT_IN_VOL_IPVU = WM8960_R0_IPVU
    /\ WM8960_LEFT_RIGHT_IN_VOL_INMUTE = WM8960_R0_LINMUTE
    /\ WM8960_LEFT_RIGHT_IN_VOL_IZC_ZC = WM8960_R0_LIZC
    /\ WM8960_LEFT_RIGHT_IN_VOL_INVOL_0dB
           = Shl(WM8960_R0_LINVOL_0DB, WM8960_R0_LINVOL_SHIFT)
    /\ WM8960_LEFT_RIGHT_IN_VOL_INVOL_30dB
           = Shl(WM8960_R0_LINVOL_MAX_30DB, WM8960_R0_LINVOL_SHIFT)
    /\ last = "level" => reg = ComposeLR(level, flags)
    /\ last = "levelLR" => reg = ComposeR0Level(level, flags)

\* 0 dB was written with the second group, update and zero-cross set
C8_Witness ==
    /\ last = "levelLR"
    /\ level = "0dB"
    /\ flags = {"IPVU", "LIZC"}
    /\ reg = 256 + 64 + 23

(***************************************************************************)
(* C9.  Round trip: for a gain code g in 0..0x3F and any choice of the     *)
(* three flags, r = ((g << SHIFT) & MASK) | flags gives back g as          *)
(* (r & MASK) >> SHIFT and has a bit of a flag's mask exactly for the      *)
(* chosen flags; distinct inputs give distinct r.                          *)
(***************************************************************************)
C9_ComposeExtractRoundTrip ==
    /\ (last = "code" /\ gain <= 63) =>
           /\ reg = ComposeR0(gain, flags)
           /\ ExtractLINVOL(reg) = gain
           /\ ExtractFlags(reg) = flags
    /\ Cardinality({ComposeR0(g, S) : g \in 0 .. 63, S \in SUBSET FlagNames})
           = 64 * 8

\* code 0x2A with update and zero-cross: 0x16A
C9_Witness ==
    /\ last = "code"
    /\ gain = 42
    /\ flags = {"IPVU", "LIZC"}
    /\ reg = 256 + 64 + 42

(***************************************************************************)
(* C10.  The four fields tile the 9-bit value: the OR of the four masks is *)
(* 0x1FF, every bit 0..8 belongs to a field, and every register value      *)
(* composed from the constants lies in 0..0x1FF.                           *)
(***************************************************************************)
C10_FieldsTileNineBits ==
    /\ BitOr(R0AllFlags, WM8960_R0_LINVOL_MASK) = 511
    /\ \A b \in 0 .. 8 : \E f \in R0FieldNames : BitSet(R0Mask(f), b)
    /\ reg \in 0 .. 511
    /\ BitAndNot(reg, BitOr(R0AllFlags, WM8960_R0_LINVOL_MASK)) = 0

\* an out-of-range gain input was written with every flag: still nine bits
C10_Witness ==
    /\ last = "code"
    /\ gain > 63
    /\ flags = FlagNames
    /\ reg >= 256

=============================================================================
